---- MODULE Spec2Model ----
(***************************************************************************)
(* Model of models/gan.py: the Discriminator of the video GAN, its two     *)
(* adversarial losses, the two sequence rearrangements that feed them, and *)
(* the factory create_netD.                                                *)
(*                                                                         *)
(* A tensor is a record: its shape, its data in row-major (contiguous)     *)
(* order, the set of caller tensors its autograd graph reaches, and a flag *)
(* that stands for "the expression that computes it raised".  The data of  *)
(* a video tensor is kept per (batch, time, channel) plane: the three      *)
(* arguments of one call share their height and width, so no operation of  *)
(* the file ever splits a plane.  The output of a convolution depends on   *)
(* weights the file does not fix, so forward keeps shapes and autograd     *)
(* reach only.  All tensors are taken to live on the CUDA device that      *)
(* rearrange_seq_interp moves its mask to.                                 *)
(***************************************************************************)
EXTENDS Integers, Sequences, FiniteSets, TLC

VARIABLES opt, netD_img, netD_seq, optimizer_netD, call, res

vars == <<opt, netD_img, netD_seq, optimizer_netD, call, res>>

(* ---------------------------- bounds ----------------------------------- *)
MaxB == 2
MaxT == 3
MaxH == 17
MaxW == 9

(* sample sizes the factory is tried on, clip lengths, channel counts and  *)
(* spatial extents of the video tensors handed to the losses               *)
MaxSS == MaxT
ChanSet == {1, 3}
Spatial == {<<8, 8>>, <<16, 8>>}
LrSet == {2}

Min(a, b) == IF a < b THEN a ELSE b
Max(a, b) == IF a < b THEN b ELSE a

(* ------------------------ float32 elements ----------------------------- *)
Fin(n) == [k |-> "fin", v |-> n]
Inf == [k |-> "inf", v |-> 1]
NaN == [k |-> "nan", v |-> 0]

Sign(n) == IF n < 0 THEN -1 ELSE IF n > 0 THEN 1 ELSE 0

(* IEEE-754 product: 0 * inf is NaN *)
FMul(x, y) ==
    IF x.k = "nan" \/ y.k = "nan" THEN NaN
    ELSE IF x.k = "inf" /\ y.k = "inf" THEN [k |-> "inf", v |-> x.v * y.v]
    ELSE IF x.k = "inf" THEN (IF y.v = 0 THEN NaN ELSE [k |-> "inf", v |-> x.v * Sign(y.v)])
    ELSE IF y.k = "inf" THEN (IF x.v = 0 THEN NaN ELSE [k |-> "inf", v |-> y.v * Sign(x.v)])
    ELSE Fin(x.v * y.v)

(* IEEE-754 sum: inf + (-inf) is NaN *)
FAdd(x, y) ==
    IF x.k = "nan" \/ y.k = "nan" THEN NaN
    ELSE IF x.k = "inf" /\ y.k = "inf" THEN (IF x.v = y.v THEN x ELSE NaN)
    ELSE IF x.k = "inf" THEN x
    ELSE IF y.k = "inf" THEN y
    ELSE Fin(x.v + y.v)

FNeg(x) == IF x.k = "nan" THEN NaN ELSE [k |-> x.k, v |-> 0 - x.v]

(* --------------------------- tensors ----------------------------------- *)
NoneT == [exc |-> FALSE, shape |-> <<>>, data |-> <<>>, grad |-> {}]
Err == [exc |-> TRUE, shape |-> <<>>, data |-> <<>>, grad |-> {}]

IsTensor(x) == ~x.exc /\ x.shape # <<>>

(* plane (b, t, c) of a 5-D tensor, indices from 0 *)
At(x, b, t, c) == x.data[(b * x.shape[2] + t) * x.shape[3] + c + 1]

(* element (n, k) of a 4-D tensor, indices from 0 *)
At4(x, n, k) == x.data[n * x.shape[2] + k + 1]

TensorId(name) == IF name = "real" THEN 1 ELSE IF name = "fake" THEN 2 ELSE 3

(* a caller's video tensor: every plane a value of its own; hasInf puts    *)
(* +inf into the first plane                                               *)
MkTensor(name, b, t, c, h, w, hasInf) ==
    [exc |-> FALSE,
     shape |-> <<b, t, c, h, w>>,
     data |-> [k \in 1..(b * t * c) |->
                 IF hasInf /\ k = 1 THEN Inf ELSE Fin(TensorId(name) * 1000 + k)],
     grad |-> {name}]

clone(x) == x

(* detach that leaves the autograd graph attached *)
detach_kept(x) == x

detach(x) == IF x.exc THEN x ELSE [x EXCEPT !.grad = {}]

(* x[:, lo:hi, ...] with Python's clipping of the bounds *)
Slice(x, lo, hi) ==
    IF x.exc THEN Err
    ELSE LET B == x.shape[1]
             T == x.shape[2]
             C == x.shape[3]
             l == Min(lo, T)
             n == Max(Min(hi, T) - l, 0)
         IN [x EXCEPT !.shape = <<B, n, C, x.shape[4], x.shape[5]>>,
                      !.data = [k \in 1..(B * n * C) |->
                                  At(x, (k - 1) \div (n * C),
                                        l + (((k - 1) % (n * C)) \div C),
                                        (k - 1) % C)]]

(* torch.cat([x, y], dim=1) of two 5-D tensors *)
Cat1(x, y) ==
    IF x.exc \/ y.exc THEN Err
    ELSE IF \E d \in {1, 3, 4, 5} : x.shape[d] # y.shape[d] THEN Err
    ELSE LET B == x.shape[1]
             C == x.shape[3]
             tx == x.shape[2]
             n == tx + y.shape[2]
         IN [exc |-> FALSE,
             shape |-> <<B, n, C, x.shape[4], x.shape[5]>>,
             data |-> [k \in 1..(B * n * C) |->
                         LET bb == (k - 1) \div (n * C)
                             tt == ((k - 1) % (n * C)) \div C
                             cc == (k - 1) % C
                         IN IF tt < tx THEN At(x, bb, tt, cc) ELSE At(y, bb, tt - tx, cc)],
             grad |-> x.grad \cup y.grad]

RECURSIVE ConcatData(_, _)
ConcatData(xs, n) == IF n = 0 THEN <<>> ELSE ConcatData(xs, n - 1) \o xs[n].data

RECURSIVE SumDim0(_, _)
SumDim0(xs, n) == IF n = 0 THEN 0 ELSE SumDim0(xs, n - 1) + xs[n].shape[1]

(* torch.cat(xs, dim=0) of a list of 5-D tensors *)
Cat0(xs) ==
    IF Len(xs) = 0 THEN Err
    ELSE IF \E i \in 1..Len(xs) : xs[i].exc THEN Err
    ELSE IF \E i \in 1..Len(xs) : \E d \in 2..5 : xs[i].shape[d] # xs[1].shape[d] THEN Err
    ELSE [exc |-> FALSE,
          shape |-> <<SumDim0(xs, Len(xs)), xs[1].shape[2], xs[1].shape[3],
                      xs[1].shape[4], xs[1].shape[5]>>,
          data |-> ConcatData(xs, Len(xs)),
          grad |-> UNION {xs[i].grad : i \in 1..Len(xs)}]

(* number of (h x w) planes a tensor of this shape holds *)
Planes(x) == Len(x.data)

(* x.view(n, -1, h, w): the same contiguous data under a 4-D shape; the    *)
(* inferred dimension must divide evenly                                   *)
View4(x, n, h, w) ==
    IF x.exc THEN Err
    ELSE LET numel == Planes(x) * x.shape[4] * x.shape[5]
             d == n * h * w
         IN IF d = 0 \/ numel % d # 0 THEN Err
            ELSE [x EXCEPT !.shape = <<n, numel \div d, h, w>>]

(* x.contiguous().view(-1, c, h, w) *)
ViewFlat(x, c, h, w) ==
    IF x.exc THEN Err
    ELSE LET numel == Planes(x) * x.shape[4] * x.shape[5]
             d == c * h * w
         IN IF d = 0 \/ numel % d # 0 THEN Err
            ELSE [x EXCEPT !.shape = <<numel \div d, c, h, w>>]

(* broadcasting of two 5-D shapes *)
BDim(a, b) == IF a = 1 THEN b ELSE a
BOk(xs, ys) == \A d \in 1..5 : xs[d] = ys[d] \/ xs[d] = 1 \/ ys[d] = 1
BAt(x, b, t, c) ==
    At(x, IF x.shape[1] = 1 THEN 0 ELSE b,
          IF x.shape[2] = 1 THEN 0 ELSE t,
          IF x.shape[3] = 1 THEN 0 ELSE c)

(* the elementwise operations the file uses *)
Apply(op, a, b) == IF op = "mul" THEN FMul(a, b) ELSE FAdd(a, b)

(* elementwise op ("mul" or "add") of two 5-D tensors, with broadcasting *)
Elementwise(op, x, y) ==
    IF x.exc \/ y.exc THEN Err
    ELSE IF ~BOk(x.shape, y.shape) THEN Err
    ELSE LET B == BDim(x.shape[1], y.shape[1])
             T == BDim(x.shape[2], y.shape[2])
             C == BDim(x.shape[3], y.shape[3])
         IN [exc |-> FALSE,
             shape |-> <<B, T, C, BDim(x.shape[4], y.shape[4]), BDim(x.shape[5], y.shape[5])>>,
             data |-> [k \in 1..(B * T * C) |->
                         LET bb == (k - 1) \div (T * C)
                             tt == ((k - 1) % (T * C)) \div C
                             cc == (k - 1) % C
                         IN Apply(op, BAt(x, bb, tt, cc), BAt(y, bb, tt, cc))],
             grad |-> x.grad \cup y.grad]

(* torch.eye(t)[i].view(1, -1, 1, 1, 1) *)
reshaped_mask(t, i) ==
    [exc |-> FALSE,
     shape |-> <<1, t, 1, 1, 1>>,
     data |-> [k \in 1..t |-> Fin(IF k = i + 1 THEN 1 ELSE 0)],
     grad |-> {}]

(* 1 - m *)
OneMinus(m) == [m EXCEPT !.data = [k \in 1..Len(m.data) |-> FAdd(Fin(1), FNeg(m.data[k]))]]

(* ------------------------ Discriminator -------------------------------- *)
KernelSize == 4
NumFeatures == 64
ImgChannels == 3

Discriminator(in_ch, seq, is_extrap) ==
    [built |-> TRUE, in_ch |-> in_ch, seq |-> seq, is_extrap |-> is_extrap]

NoDisc == [built |-> FALSE, in_ch |-> 0, seq |-> FALSE, is_extrap |-> FALSE]

(* the stack with layer_3 given layer_4's stride 1 and padding 2 *)
Layers_two_down(in_ch) ==
    << [name |-> "layer_1", in_ch |-> in_ch, out_ch |-> NumFeatures,
        kernel_size |-> KernelSize, stride |-> 2, padding |-> 1, norm |-> FALSE],
       [name |-> "layer_2", in_ch |-> NumFeatures, out_ch |-> 2 * NumFeatures,
        kernel_size |-> KernelSize, stride |-> 2, padding |-> 1, norm |-> TRUE],
       [name |-> "layer_3", in_ch |-> 2 * NumFeatures, out_ch |-> 4 * NumFeatures,
        kernel_size |-> KernelSize, stride |-> 1, padding |-> 2, norm |-> TRUE],
       [name |-> "layer_4", in_ch |-> 4 * NumFeatures, out_ch |-> 8 * NumFeatures,
        kernel_size |-> KernelSize, stride |-> 1, padding |-> 2, norm |-> TRUE],
       [name |-> "last_conv", in_ch |-> 8 * NumFeatures, out_ch |-> NumFeatures,
        kernel_size |-> KernelSize, stride |-> 1, padding |-> 2, norm |-> FALSE] >>

(* the five stages built by __init__, in the order forward applies them *)
Layers(in_ch) ==
    << [name |-> "layer_1", in_ch |-> in_ch, out_ch |-> NumFeatures,
        kernel_size |-> KernelSize, stride |-> 2, padding |-> 1, norm |-> FALSE],
       [name |-> "layer_2", in_ch |-> NumFeatures, out_ch |-> 2 * NumFeatures,
        kernel_size |-> KernelSize, stride |-> 2, padding |-> 1, norm |-> TRUE],
       [name |-> "layer_3", in_ch |-> 2 * NumFeatures, out_ch |-> 4 * NumFeatures,
        kernel_size |-> KernelSize, stride |-> 2, padding |-> 1, norm |-> TRUE],
       [name |-> "layer_4", in_ch |-> 4 * NumFeatures, out_ch |-> 8 * NumFeatures,
        kernel_size |-> KernelSize, stride |-> 1, padding |-> 2, norm |-> TRUE],
       [name |-> "last_conv", in_ch |-> 8 * NumFeatures, out_ch |-> NumFeatures,
        kernel_size |-> KernelSize, stride |-> 1, padding |-> 2, norm |-> FALSE] >>

(* the convolution size rule rounding up instead of down *)
ConvOut_ceil(n, k, s, p) == ((n + 2 * p - k + s - 1) \div s) + 1

(* output extent of a convolution along one spatial axis *)
ConvOut(n, k, s, p) == ((n + 2 * p - k) \div s) + 1

(* nn.Conv2d on a 4-D shape; <<>> stands for the framework's exception.    *)
(* Whether a convolution over zero channels raises depends on the build:   *)
(* lenient chooses.                                                        *)
Conv2d(l, shape, lenient) ==
    IF shape[2] # l.in_ch THEN <<>>
    ELSE IF shape[2] = 0 /\ ~lenient THEN <<>>
    ELSE IF shape[3] + 2 * l.padding < l.kernel_size
            \/ shape[4] + 2 * l.padding < l.kernel_size THEN <<>>
    ELSE <<shape[1], l.out_ch,
           ConvOut(shape[3], l.kernel_size, l.stride, l.padding),
           ConvOut(shape[4], l.kernel_size, l.stride, l.padding)>>

(* nn.InstanceNorm2d keeps the shape; on a single spatial element it       *)
(* raises or not depending on the build: lenient chooses.                  *)
InstanceNorm2d(shape, lenient) ==
    IF shape[3] * shape[4] = 1 /\ ~lenient THEN <<>> ELSE shape

(* one stage: convolution, normalisation where the stage has it, then an   *)
(* activation that keeps the shape                                         *)
Stage(l, shape, lenient) ==
    LET c == Conv2d(l, shape, lenient)
    IN IF c = <<>> THEN <<>>
       ELSE IF l.norm THEN InstanceNorm2d(c, lenient) ELSE c

(* the shapes of h1, h2, h3, h4 and the result, up to the stage that raises *)
RECURSIVE RunLayers(_, _, _, _)
RunLayers(ls, k, shape, lenient) ==
    IF k > Len(ls) THEN <<>>
    ELSE LET s == Stage(ls[k], shape, lenient)
         IN IF s = <<>> THEN <<>>
            ELSE <<s>> \o RunLayers(ls, k + 1, s, lenient)

forward(self, x, lenient) ==
    LET hs == IF x.exc THEN <<>> ELSE RunLayers(Layers(self.in_ch), 1, x.shape, lenient)
    IN [raised |-> Len(hs) < 5,
        x |-> x.shape,
        hs |-> hs,
        out |-> IF Len(hs) = 5
                THEN [exc |-> FALSE, shape |-> hs[5], data |-> <<>>,
                      grad |-> x.grad \cup {"weights"}]
                ELSE Err]

(* ------------------------ rearrangements ------------------------------- *)
SliceFrom(x, i) == IF x.exc THEN Err ELSE Slice(x, i, x.shape[2])
SliceTo(x, n) == IF x.exc THEN Err ELSE Slice(x, 0, n)

(* the window with its two parts in the other order *)
seq_window_swapped(input_real, target, i) ==
    Cat1(clone(SliceTo(target, i + 1)), clone(SliceFrom(input_real, i)))

(* window i of the extrapolation rearrangement *)
seq_window(input_real, target, i) ==
    Cat1(clone(SliceFrom(input_real, i)), clone(SliceTo(target, i + 1)))

(* the stacking with view(b, -1, h, w): the windows folded into channels *)
stack_windows_folded(seqs, b, t, h, w) == clone(View4(Cat0(seqs), b, h, w))

(* torch.cat(seqs, dim=0).view(b * t, -1, h, w).clone() *)
stack_windows(seqs, b, t, h, w) == clone(View4(Cat0(seqs), b * t, h, w))

NoRR == [called |-> "none", raised |-> FALSE, real |-> NoneT, fake |-> NoneT]

Returned(name, only_fake, real_seqs, fake_seqs) ==
    IF fake_seqs.exc THEN [called |-> name, raised |-> TRUE, real |-> NoneT, fake |-> NoneT]
    ELSE IF only_fake THEN [called |-> name, raised |-> FALSE, real |-> NoneT, fake |-> fake_seqs]
    ELSE IF real_seqs.exc THEN [called |-> name, raised |-> TRUE, real |-> NoneT, fake |-> NoneT]
    ELSE [called |-> name, raised |-> FALSE, real |-> real_seqs, fake |-> fake_seqs]

rearrange_seq(real, fake, input_real, only_fake) ==
    LET b == fake.shape[1]
        t == fake.shape[2]
        h == fake.shape[4]
        w == fake.shape[5]
        fake_seqs == stack_windows([i \in 1..t |-> seq_window(input_real, fake, i - 1)], b, t, h, w)
        real_seqs == stack_windows([i \in 1..t |-> seq_window(input_real, real, i - 1)], b, t, h, w)
    IN Returned("rearrange_seq", only_fake, real_seqs, fake_seqs)

(* window i of the interpolation rearrangement *)
interp_window(input_real, target, t, i) ==
    Elementwise("add",
                Elementwise("mul", OneMinus(clone(reshaped_mask(t, i))), clone(input_real)),
                Elementwise("mul", clone(reshaped_mask(t, i)), clone(target)))

rearrange_seq_interp(real, fake, input_real, only_fake) ==
    LET b == fake.shape[1]
        t == fake.shape[2]
        h == fake.shape[4]
        w == fake.shape[5]
        fake_seqs == stack_windows([i \in 1..t |-> interp_window(input_real, fake, t, i - 1)], b, t, h, w)
        real_seqs == stack_windows([i \in 1..t |-> interp_window(input_real, real, t, i - 1)], b, t, h, w)
    IN Returned("rearrange_seq_interp", only_fake, real_seqs, fake_seqs)

(* ----------------------------- losses ---------------------------------- *)
(* a scalar loss: only its autograd reach is kept *)
Loss(grad) == [exc |-> FALSE, shape |-> <<>>, data |-> <<>>, grad |-> grad]

NoRes == [raised |-> FALSE, rr |-> NoRR, fedFake |-> NoneT, fedReal |-> NoneT,
          fwds |-> <<>>, loss |-> NoneT]

(* what netD_adv_loss hands to forward: the rearranged or flattened real  *)
(* and fake                                                                *)
netD_inputs(self, real, fake, input_real) ==
    LET c == fake.shape[3]
        h == fake.shape[4]
        w == fake.shape[5]
        rr == IF self.seq
              THEN (IF self.is_extrap
                    THEN rearrange_seq(clone(real), clone(fake), clone(input_real), FALSE)
                    ELSE rearrange_seq_interp(clone(real), clone(fake), clone(input_real), FALSE))
              ELSE NoRR
    IN [rr |-> rr,
        real |-> IF self.seq THEN rr.real ELSE clone(ViewFlat(real, c, h, w)),
        fake |-> IF self.seq THEN rr.fake ELSE clone(ViewFlat(fake, c, h, w))]

netD_adv_loss(self, real, fake, input_real, lenient) ==
    LET in == netD_inputs(self, real, fake, input_real)
        fed_fake == clone(detach(in.fake))
        fed_real == clone(in.real)
        pred_fake == forward(self, fed_fake, lenient)
        pred_real == forward(self, fed_real, lenient)
    IN IF in.rr.raised \/ in.real.exc \/ in.fake.exc
       THEN [NoRes EXCEPT !.raised = TRUE, !.rr = in.rr, !.loss = Err]
       ELSE IF pred_fake.raised
       THEN [NoRes EXCEPT !.raised = TRUE, !.rr = in.rr, !.fedFake = fed_fake,
                          !.fwds = <<pred_fake>>, !.loss = Err]
       ELSE IF pred_real.raised
       THEN [NoRes EXCEPT !.raised = TRUE, !.rr = in.rr, !.fedFake = fed_fake,
                          !.fedReal = fed_real, !.fwds = <<pred_fake, pred_real>>,
                          !.loss = Err]
       ELSE [NoRes EXCEPT !.rr = in.rr, !.fedFake = fed_fake, !.fedReal = fed_real,
                          !.fwds = <<pred_fake, pred_real>>,
                          !.loss = Loss(pred_real.out.grad \cup pred_fake.out.grad)]

(* the generator's policy with the two rearrangements exchanged *)
netG_inputs_exchanged(self, fake, input_real) ==
    LET c == fake.shape[3]
        h == fake.shape[4]
        w == fake.shape[5]
        rr == IF self.seq
              THEN (IF self.is_extrap
                    THEN rearrange_seq_interp(NoneT, clone(fake), clone(input_real), TRUE)
                    ELSE rearrange_seq(NoneT, clone(fake), clone(input_real), TRUE))
              ELSE NoRR
    IN [rr |-> rr,
        fake |-> IF self.seq THEN rr.fake ELSE clone(ViewFlat(fake, c, h, w))]

(* what netG_adv_loss hands to forward: the rearranged or flattened fake *)
netG_inputs(self, fake, input_real) ==
    LET c == fake.shape[3]
        h == fake.shape[4]
        w == fake.shape[5]
        rr == IF self.seq
              THEN (IF self.is_extrap
                    THEN rearrange_seq(NoneT, clone(fake), clone(input_real), TRUE)
                    ELSE rearrange_seq_interp(NoneT, clone(fake), clone(input_real), TRUE))
              ELSE NoRR
    IN [rr |-> rr,
        fake |-> IF self.seq THEN rr.fake ELSE clone(ViewFlat(fake, c, h, w))]

netG_adv_loss(self, fake, input_real, lenient) ==
    LET in == netG_inputs(self, fake, input_real)
        fed_fake == clone(in.fake)
        pred_fake == forward(self, fed_fake, lenient)
    IN IF in.rr.raised \/ in.fake.exc
       THEN [NoRes EXCEPT !.raised = TRUE, !.rr = in.rr, !.loss = Err]
       ELSE IF pred_fake.raised
       THEN [NoRes EXCEPT !.raised = TRUE, !.rr = in.rr, !.fedFake = fed_fake,
                          !.fwds = <<pred_fake>>, !.loss = Err]
       ELSE [NoRes EXCEPT !.rr = in.rr, !.fedFake = fed_fake, !.fwds = <<pred_fake>>,
                          !.loss = Loss(pred_fake.out.grad)]

(* ---------------------------- create_netD ------------------------------ *)
NoOpt == [sample_size |-> 0, irregular |-> FALSE, extrap |-> FALSE, lr |-> 0]

(* the sequence length without the irregular branch *)
seq_len_halved(o) ==
    IF o.extrap THEN (o.sample_size \div 2) + 1 ELSE o.sample_size \div 2

(* the sequence length without the extrapolation frame *)
seq_len_no_extra(o) ==
    IF o.irregular /\ ~o.extrap THEN o.sample_size ELSE o.sample_size \div 2

seq_len(o) ==
    LET halved == o.sample_size \div 2
        base == IF o.irregular /\ ~o.extrap THEN o.sample_size ELSE halved
    IN IF o.extrap THEN base + 1 ELSE base

create_netD(o) ==
    [netD_img |-> Discriminator(ImgChannels, FALSE, o.extrap),
     netD_seq |-> Discriminator(ImgChannels * seq_len(o), TRUE, o.extrap),
     optimizer_netD |-> [params |-> {"netD_img", "netD_seq"}, lr |-> o.lr]]

(* ------------------------------ inputs --------------------------------- *)
Opts ==
    [sample_size : 1..MaxSS, irregular : BOOLEAN, extrap : BOOLEAN, lr : LrSet]

OtherB(b) == (b % MaxB) + 1
OtherT(t) == (t % MaxT) + 1
OtherC(c) == CHOOSE c2 \in ChanSet : c2 # c

(* how the arguments of one loss call differ from the generator's output:  *)
(* not at all, or in one dimension of one argument, or by an infinite      *)
(* element in the conditioning input                                       *)
Variants == {"match", "input_b", "input_c", "input_inf", "real_b", "real_t", "real_c"}

NoCall == [op |-> "none", self |-> "none", real |-> NoneT, fake |-> NoneT,
           input_real |-> NoneT, x |-> NoneT]

FakeArg(b, t, c, hw) == MkTensor("fake", b, t, c, hw[1], hw[2], FALSE)

RealArg(b, t, c, hw, v) ==
    MkTensor("real",
             IF v = "real_b" THEN OtherB(b) ELSE b,
             IF v = "real_t" THEN OtherT(t) ELSE t,
             IF v = "real_c" THEN OtherC(c) ELSE c,
             hw[1], hw[2], FALSE)

InputArg(b, tin, c, hw, v) ==
    MkTensor("input_real",
             IF v = "input_b" THEN OtherB(b) ELSE b,
             tin,
             IF v = "input_c" THEN OtherC(c) ELSE c,
             hw[1], hw[2], v = "input_inf")

Self(name) == IF name = "img" THEN netD_img ELSE netD_seq

(* ------------------------------ actions -------------------------------- *)
Init ==
    /\ opt = NoOpt
    /\ netD_img = NoDisc
    /\ netD_seq = NoDisc
    /\ optimizer_netD = [params |-> {}, lr |-> 0]
    /\ call = NoCall
    /\ res = NoRes

(* calls are made one at a time by the training loop: call.op = "none"    *)
(* between two calls                                                       *)
Call_create_netD ==
    /\ call.op = "none"
    /\ \E o \in Opts :
        /\ opt' = o
        /\ netD_img' = create_netD(o).netD_img
        /\ netD_seq' = create_netD(o).netD_seq
        /\ optimizer_netD' = create_netD(o).optimizer_netD
        /\ call' = [NoCall EXCEPT !.op = "create_netD"]
        /\ res' = NoRes

(* the image discriminator never reads input_real; it is handed a clip of  *)
(* the generator output's shape                                            *)
Call_netD_adv_loss ==
    /\ call.op = "none"
    /\ netD_img.built
    /\ \E name \in {"img", "seq"}, b \in 1..MaxB, t \in 1..MaxT, c \in ChanSet,
          hw \in Spatial, tin \in 0..MaxT, v \in Variants, lenient \in BOOLEAN :
        /\ name = "img" => tin = t /\ v \in {"match", "real_b", "real_t", "real_c"}
        /\ call' = [NoCall EXCEPT !.op = "netD_adv_loss", !.self = name,
                                  !.real = RealArg(b, t, c, hw, v),
                                  !.fake = FakeArg(b, t, c, hw),
                                  !.input_real = InputArg(b, tin, c, hw, v)]
        /\ res' = netD_adv_loss(Self(name), RealArg(b, t, c, hw, v), FakeArg(b, t, c, hw),
                                InputArg(b, tin, c, hw, v), lenient)
    /\ UNCHANGED <<opt, netD_img, netD_seq, optimizer_netD>>

Call_netG_adv_loss ==
    /\ call.op = "none"
    /\ netD_img.built
    /\ \E name \in {"img", "seq"}, b \in 1..MaxB, t \in 1..MaxT, c \in ChanSet,
          hw \in Spatial, tin \in 0..MaxT,
          v \in {"match", "input_b", "input_c", "input_inf"}, lenient \in BOOLEAN :
        /\ name = "img" => tin = t /\ v = "match"
        /\ call' = [NoCall EXCEPT !.op = "netG_adv_loss", !.self = name,
                                  !.fake = FakeArg(b, t, c, hw),
                                  !.input_real = InputArg(b, tin, c, hw, v)]
        /\ res' = netG_adv_loss(Self(name), FakeArg(b, t, c, hw),
                                InputArg(b, tin, c, hw, v), lenient)
    /\ UNCHANGED <<opt, netD_img, netD_seq, optimizer_netD>>

(* forward on a batch of n images with the discriminator's channel count   *)
(* or with a single channel                                                *)
Call_forward ==
    /\ call.op = "none"
    /\ netD_img.built
    /\ \E name \in {"img", "seq"}, n \in 1..MaxB, wrongCh \in BOOLEAN,
          h \in 1..MaxH, w \in 1..MaxW, lenient \in BOOLEAN :
        LET x == [exc |-> FALSE,
                  shape |-> <<n, IF wrongCh THEN 1 ELSE Self(name).in_ch, h, w>>,
                  data |-> <<>>,
                  grad |-> {"x"}]
            f == forward(Self(name), x, lenient)
        IN /\ call' = [NoCall EXCEPT !.op = "forward", !.self = name, !.x = x]
           /\ res' = [NoRes EXCEPT !.raised = f.raised, !.fwds = <<f>>]
    /\ UNCHANGED <<opt, netD_img, netD_seq, optimizer_netD>>

(* the caller takes the result (or the exception) of the call *)
Return ==
    /\ call.op # "none"
    /\ call' = NoCall
    /\ res' = NoRes
    /\ UNCHANGED <<opt, netD_img, netD_seq, optimizer_netD>>

Next ==
    \/ Call_create_netD
    \/ Call_netD_adv_loss
    \/ Call_netG_adv_loss
    \/ Call_forward
    \/ Return

Spec == Init /\ [][Next]_vars

(* ------------------------ the claims' vocabulary ----------------------- *)
IsLoss == call.op \in {"netD_adv_loss", "netG_adv_loss"}
IsNetD == call.op = "netD_adv_loss"
IsNetG == call.op = "netG_adv_loss"

(* the shape of the generator's output in the current call *)
cB == call.fake.shape[1]
cT == call.fake.shape[2]
cC == call.fake.shape[3]
cH == call.fake.shape[4]
cW == call.fake.shape[5]
cTin == call.input_real.shape[2]

(* input_real has the shape (B, T_in, C, H, W) for fake's B, C, H, W *)
InputFits ==
    call.input_real.shape = <<cB, cTin, cC, cH, cW>>

(* the current call ran rearrange_seq / rearrange_seq_interp *)
RanSeq == IsLoss /\ res.rr.called = "rearrange_seq"
RanInterp == IsLoss /\ res.rr.called = "rearrange_seq_interp"

(* C1 as stated: for every fake (B, T, C, H, W) and every input_real       *)
(* (B, T_in, C, H, W) with any T_in >= 1, rearrange_seq returns, with      *)
(* only_fake or without, tensors whose batch dimension is B x T.           *)
C1_Pre ==
    /\ RanSeq
    /\ InputFits
    /\ cTin >= 1
    /\ IsNetD => call.real.shape = call.fake.shape

C1_Original ==
    C1_Pre =>
        /\ ~res.rr.raised
        /\ res.rr.fake.shape[1] = cB * cT
        /\ IsNetD => res.rr.real.shape[1] = cB * cT

(* C1 amended: rearrange_seq returns exactly when T <= T_in + 1, and then  *)
(* the batch dimension of each tensor it returns is B x T; with            *)
(* T > T_in + 1 it raises.                                                 *)
C1_Amended ==
    C1_Pre =>
        /\ res.rr.raised <=> cT > cTin + 1
        /\ ~res.rr.raised =>
              /\ res.rr.fake.shape[1] = cB * cT
              /\ IsNetD => res.rr.real.shape[1] = cB * cT

C1_Witness ==
    /\ C1_Pre
    /\ IsNetD
    /\ ~res.rr.raised
    /\ cB = 2
    /\ cT = 3
    /\ cTin = 2
    /\ res.rr.real.shape[1] = 6

(* row i*B + b of a rearrange_seq output: the frames input_real[b, i..]    *)
(* and then target[b, 0..i], each on C consecutive channels                *)
SeqRowOk(out, target, i, b) ==
    /\ out.shape = <<cB * cT, cC * ((cTin - i) + (i + 1)), cH, cW>>
    /\ \A k \in 0..(out.shape[2] - 1) :
          LET fr == k \div cC
              cc == k % cC
          IN At4(out, i * cB + b, k) =
                IF fr < cTin - i
                THEN At(call.input_real, b, i + fr, cc)
                ELSE At(target, b, fr - (cTin - i), cc)

(* C2: in every output of rearrange_seq, row i*B + b holds the trailing    *)
(* conditioning frames input_real[b, i..T_in-1] followed by the leading    *)
(* i+1 target frames, C channels per frame, C x ((T_in - i) + (i + 1))     *)
(* channels in all; B=2, T=T_in=3, C=3, H=W=8 gives (6, 12, 8, 8).         *)
C2_Windows ==
    (RanSeq /\ ~res.rr.raised) =>
        /\ \A i \in 0..(cT - 1) : \A b \in 0..(cB - 1) :
              /\ SeqRowOk(res.rr.fake, call.fake, i, b)
              /\ IsNetD => SeqRowOk(res.rr.real, call.real, i, b)
        /\ (cB = 2 /\ cT = 3 /\ cTin = 3 /\ cC = 3 /\ cH = 8 /\ cW = 8)
              => res.rr.fake.shape = <<6, 12, 8, 8>>

C2_Witness ==
    /\ RanSeq
    /\ IsNetG
    /\ ~res.rr.raised
    /\ call.fake.shape = <<2, 3, 3, 8, 8>>
    /\ call.input_real.shape = <<2, 3, 3, 8, 8>>
    /\ res.rr.fake.shape = <<6, 12, 8, 8>>

(* row i*B + b of a rearrange_seq_interp output: target at time i,         *)
(* input_real at every other time                                          *)
InterpRowOk(out, target, i, b) ==
    \A j \in 0..(cT - 1) : \A cc \in 0..(cC - 1) :
        At4(out, i * cB + b, j * cC + cc) =
            IF j = i THEN At(target, b, j, cc) ELSE At(call.input_real, b, j, cc)

(* C3: with real, fake and input_real of one shape (B, T, C, H, W), the    *)
(* output of rearrange_seq_interp has shape (B x T, T x C, H, W) and its   *)
(* row i*B + b holds target[b, j] at time j = i and input_real[b, j] at    *)
(* every time j # i.                                                       *)
C3_Claim ==
    (/\ RanInterp
     /\ ~res.rr.raised
     /\ call.input_real.shape = call.fake.shape
     /\ IsNetD => call.real.shape = call.fake.shape) =>
        /\ res.rr.fake.shape = <<cB * cT, cT * cC, cH, cW>>
        /\ IsNetD => res.rr.real.shape = <<cB * cT, cT * cC, cH, cW>>
        /\ \A i \in 0..(cT - 1) : \A b \in 0..(cB - 1) :
              /\ InterpRowOk(res.rr.fake, call.fake, i, b)
              /\ IsNetD => InterpRowOk(res.rr.real, call.real, i, b)

(* the shapes a returned forward went through: x, h1, h2, h3, h4, result *)
Through(f) == <<f.x>> \o f.hs

(* the stride and padding of the five stages as C4 lists them *)
C4Stride(k) == IF k <= 3 THEN 2 ELSE 1
C4Padding(k) == IF k <= 3 THEN 1 ELSE 2

(* C4: whenever forward returns on an input (N, in_ch, H, W), each stage's *)
(* extent is floor((in + 2*padding - 4) / stride) + 1 of the one before,   *)
(* and the result has shape (N, 64, floor(H/8) + 2, floor(W/8) + 2).       *)
C4_ForwardShape ==
    \A n \in 1..Len(res.fwds) :
        LET f == res.fwds[n]
            S == Through(f)
        IN ~f.raised =>
              /\ \A k \in 1..5 : \A d \in {3, 4} :
                    S[k + 1][d] = ((S[k][d] + 2 * C4Padding(k) - 4) \div C4Stride(k)) + 1
              /\ f.out.shape = <<f.x[1], 64, (f.x[3] \div 8) + 2, (f.x[4] \div 8) + 2>>

C4_Witness ==
    /\ call.op = "forward"
    /\ ~res.raised
    /\ call.x.shape[3] = 17
    /\ call.x.shape[4] = 9
    /\ res.fwds[1].out.shape = <<call.x.shape[1], 64, 4, 3>>

(* C5: the tensor netD_adv_loss scores as fake is cut from the caller's    *)
(* fake, the tensor it scores as real is not cut from real, and the tensor *)
(* netG_adv_loss scores, and its loss, stay connected to the caller's fake.*)
C5_Detach ==
    /\ (IsNetD /\ IsTensor(res.fedFake)) => res.fedFake.grad = {}
    /\ (IsNetD /\ IsTensor(res.fedReal)) => "real" \in res.fedReal.grad
    /\ (IsNetD /\ ~res.raised) =>
          /\ "fake" \notin res.loss.grad
          /\ "real" \in res.loss.grad
    /\ (IsNetG /\ IsTensor(res.fedFake)) => "fake" \in res.fedFake.grad
    /\ (IsNetG /\ ~res.raised) => "fake" \in res.loss.grad

C5_Witness ==
    /\ IsNetD
    /\ call.self = "seq"
    /\ ~res.raised
    /\ res.fedFake.grad = {}
    /\ res.fedReal.grad = {"real", "input_real"}

SameTensor(x, y) == x.shape = y.shape /\ x.data = y.data

(* a real clip of the generator output's shape *)
RealLike(fake) ==
    MkTensor("real", fake.shape[1], fake.shape[2], fake.shape[3],
             fake.shape[4], fake.shape[5], FALSE)

(* C6: the fake tensor one loss passes to forward is, in shape and value,  *)
(* the one the other loss passes for the same fake and input_real: the     *)
(* rearrange_seq output when seq and is_extrap, the rearrange_seq_interp   *)
(* output when seq and not is_extrap, the (B x T, C, H, W) flattening      *)
(* when not seq.                                                           *)
C6_SamePolicy ==
    /\ (IsNetD /\ IsTensor(res.fedFake)) =>
          LET g == netG_adv_loss(Self(call.self), call.fake, call.input_real, TRUE)
          IN IsTensor(g.fedFake) /\ SameTensor(g.fedFake, res.fedFake)
    /\ (IsNetG /\ IsTensor(res.fedFake)) =>
          LET d == netD_adv_loss(Self(call.self), RealLike(call.fake), call.fake,
                                 call.input_real, TRUE)
          IN IsTensor(d.fedFake) /\ SameTensor(d.fedFake, res.fedFake)
    /\ (IsLoss /\ IsTensor(res.fedFake)) =>
          LET self == Self(call.self)
          IN IF self.seq
             THEN /\ res.rr.called = (IF self.is_extrap THEN "rearrange_seq"
                                      ELSE "rearrange_seq_interp")
                  /\ SameTensor(res.fedFake, res.rr.fake)
             ELSE /\ res.rr.called = "none"
                  /\ res.fedFake.shape = <<cB * cT, cC, cH, cW>>
                  /\ res.fedFake.data = call.fake.data

C6_Witness ==
    /\ IsNetG
    /\ call.self = "seq"
    /\ ~netD_seq.is_extrap
    /\ ~res.raised
    /\ cT = 3
    /\ SameTensor(res.fedFake,
                  netD_adv_loss(netD_seq, RealLike(call.fake), call.fake,
                                call.input_real, TRUE).fedFake)

Built == netD_img.built /\ netD_seq.built

(* C7 as stated: the image discriminator has 3 input channels and          *)
(* seq=False, the sequence discriminator seq=True and 3 x L input          *)
(* channels with L within 1 of sample_size // 2.                           *)
C7_Original ==
    Built =>
        /\ netD_img.in_ch = 3
        /\ ~netD_img.seq
        /\ netD_seq.seq
        /\ \E L \in {(opt.sample_size \div 2) - 1, opt.sample_size \div 2,
                     (opt.sample_size \div 2) + 1} : netD_seq.in_ch = 3 * L

(* C7 amended: L is sample_size // 2 + 1 when extrap, sample_size when     *)
(* irregular and not extrap, sample_size // 2 otherwise.                   *)
C7_Amended ==
    Built =>
        /\ netD_img.in_ch = 3
        /\ ~netD_img.seq
        /\ netD_seq.seq
        /\ netD_seq.in_ch =
              3 * (IF opt.extrap THEN (opt.sample_size \div 2) + 1
                   ELSE IF opt.irregular THEN opt.sample_size
                   ELSE opt.sample_size \div 2)

C7_Witness ==
    /\ Built
    /\ call.op = "create_netD"
    /\ opt.sample_size = 3
    /\ opt.irregular
    /\ ~opt.extrap
    /\ netD_seq.in_ch = 9

(* the shape disagreements C8 lists, among the arguments the call reads,   *)
(* on conditioning inputs of at least one frame                            *)
C8_Mismatch ==
    LET self == Self(call.self)
        BCOff(x) == x.shape[1] # cB \/ x.shape[3] # cC
    IN IF self.seq
       THEN /\ cTin >= 1
            /\ \/ BCOff(call.input_real)
               \/ IsNetD /\ BCOff(call.real)
               \/ ~self.is_extrap /\ cTin # cT
               \/ self.is_extrap /\ cT > cTin + 1
       ELSE IsNetD /\ call.real.shape # call.fake.shape

(* C8: every call whose tensor arguments mismatch in shape ends in an      *)
(* exception: neither the rearrangement nor the loss returns a result.     *)
C8_Claim ==
    (IsLoss /\ C8_Mismatch) =>
        /\ res.raised
        /\ res.rr.called # "none" => res.rr.raised

(* C9 as stated: layer_1 .. layer_4 each produce an output strictly        *)
(* smaller in height and width than their input, and last_conv does not    *)
(* reduce them.                                                            *)
C9_Original ==
    \A n \in 1..Len(res.fwds) :
        LET f == res.fwds[n]
            S == Through(f)
        IN ~f.raised =>
              /\ \A k \in 1..4 : S[k + 1][3] < S[k][3] /\ S[k + 1][4] < S[k][4]
              /\ S[6][3] >= S[5][3] /\ S[6][4] >= S[5][4]

(* C9 amended: layer_1, layer_2 and layer_3 each produce an output         *)
(* strictly smaller in height and width than their input; layer_4 and      *)
(* last_conv each produce one exactly 1 larger in height and in width.     *)
C9_Amended ==
    \A n \in 1..Len(res.fwds) :
        LET f == res.fwds[n]
            S == Through(f)
        IN ~f.raised =>
              /\ \A k \in 1..3 : S[k + 1][3] < S[k][3] /\ S[k + 1][4] < S[k][4]
              /\ \A k \in 4..5 : S[k + 1][3] = S[k][3] + 1 /\ S[k + 1][4] = S[k][4] + 1

C9_Witness ==
    /\ IsNetG
    /\ call.self = "img"
    /\ ~res.raised
    /\ Through(res.fwds[1]) =
          <<<<6, 3, 16, 8>>, <<6, 64, 8, 4>>, <<6, 128, 4, 2>>, <<6, 256, 2, 1>>,
            <<6, 512, 3, 2>>, <<6, 64, 4, 3>>>>

(* the first convolution of the sequence discriminator accepted the        *)
(* rearranged fake tensor                                                  *)
SeqAccepted ==
    /\ ~res.rr.raised
    /\ res.rr.fake.shape[2] = netD_seq.in_ch
    /\ IsNetD => res.rr.real.shape[2] = netD_seq.in_ch
    /\ Len(res.fwds) >= 1
    /\ Len(res.fwds[1].hs) >= 1

====
